---- MODULE Spec2Model ----
(***************************************************************************)
(* Request handling of the multi-listener reverse-proxy router:            *)
(* the per-listener handler (dispatch), handleHTTP and handleWebSocket,    *)
(* including the two relay loops of a WebSocket session.                   *)
(*                                                                         *)
(* A behaviour follows one handler invocation: the handlers share no state *)
(* between invocations (their only inputs are w, r and routes).            *)
(*                                                                         *)
(* Strings whose characters matter (paths) are sequences of one-character  *)
(* strings; strings.HasPrefix is computed on them.                         *)
(***************************************************************************)
EXTENDS Integers, Sequences, FiniteSets, TLC

\* ------------------------------------------------------------ bounds

\* Longest route list of a listener.
MaxRoutes == 2
\* Most messages a peer sends in one relay session.
MaxMsgs == 2
\* Most listeners of a configuration.
MaxListeners == 2
\* Most HTTP requests, and most relay sessions, a listener serves at a time.
MaxActive == 1

\* ------------------------------------------------------------ inputs

\* Route paths of the configuration: "/", "/a", "/ab".
RoutePaths == { <<"/">>, <<"/", "a">>, <<"/", "a", "b">> }

\* Backends (host, port) a route may name.  A host is a host name or is
\* absent (""); a negative port makes the target URL unparseable.
Backends ==
    { [Host |-> "", Port |-> 9000],
      [Host |-> "api.example.com", Port |-> 9001],
      [Host |-> "", Port |-> -1] }

\* RedirectConfig values.
RouteSet ==
    { [Path |-> p, Host |-> b.Host, Port |-> b.Port] : p \in RoutePaths, b \in Backends }

\* ServerConfig.Redirect values: ordered route lists.
RouteTables == UNION { [1..n -> RouteSet] : n \in 0..MaxRoutes }

\* Request paths: "/", "/a", "/ab/x", "/A/b", "/b".
RequestPaths ==
    { <<"/">>, <<"/", "a">>, <<"/", "a", "b", "/", "x">>,
      <<"/", "A", "/", "b">>, <<"/", "b">> }

RawQueries == { "", "q=1&r=2" }
HostHeaders == { "front.example.com", "api.example.com" }
\* The client's address as the server records it, "ip:port".
ClientAddr == [ip |-> "10.0.0.7", port |-> "51000"]
\* X-Forwarded-* values the client supplies itself: none, or forged ones.
NoHeaders == [XFH |-> <<>>, XFP |-> <<>>, XFF |-> <<>>]
ForgedHeaders == [XFH |-> <<"evil">>, XFP |-> <<"https">>, XFF |-> << <<"6.6.6.6">> >>]

\* Inbound requests.  handleWebSocket reads nothing of the request but its
\* path, so upgrade requests vary in the path only.
Requests ==
    { [ws |-> FALSE, Path |-> p, RawQuery |-> q, Host |-> h,
       RemoteAddr |-> ClientAddr, Header |-> hd] :
        p \in RequestPaths, q \in RawQueries, h \in HostHeaders,
        hd \in {NoHeaders, ForgedHeaders} }
    \cup
    { [ws |-> TRUE, Path |-> p, RawQuery |-> "", Host |-> "front.example.com",
       RemoteAddr |-> ClientAddr, Header |-> NoHeaders] : p \in RequestPaths }

NoRequest ==
    [ws |-> FALSE, Path |-> <<>>, RawQuery |-> "", Host |-> "",
     RemoteAddr |-> ClientAddr, Header |-> NoHeaders]

\* Ports a listener may be configured on.
ListenPorts == { 8080, 8081 }

\* config.Router values, as the sequence of the listeners' ports.
Configs == UNION { [1..n -> ListenPorts] : n \in 0..MaxListeners }

\* The start tasks there can be.
Listeners == 1..MaxListeners

\* config.Router as the Redirect list of each listener; one route each.
Routers ==
    UNION { [1..n -> { <<rt>> : rt \in RouteSet }] : n \in 0..MaxListeners }

NoRoute == [Path |-> <<>>, Host |-> "", Port |-> 0]

\* Statuses a backend answers with.
BackendStatuses == { 200, 404 }

\* WebSocket messages: gorilla's TextMessage = 1 and BinaryMessage = 2.
Messages == { [messageType |-> 1, message |-> "m"], [messageType |-> 2, message |-> "n"] }
NoMessage == [messageType |-> 0, message |-> ""]

\* ------------------------------------------------------------ state

VARIABLES
    pc,          \* position of the handler
    routes,      \* <<routes>> while the loop over routes runs, <<>> once it is left
    r,           \* the inbound request
    idx,         \* loop index at the match, 0 outside the loop
    route,       \* the loop variable at the match
    host,        \* local host
    w,           \* response writer: statuses written, and hijacked
    outreq,      \* requests sent to the backend by the reverse proxy
    results,     \* what each round trip ended in: a status, or 0 for an error
    wsURL,       \* URLs dialed
    upgrades,    \* number of upgrader.Upgrade calls
    targetConn,  \* "nil", "open", "closed"
    clientConn,  \* "nil", "open", "closed"
    gpc,         \* position of the client-to-backend goroutine
    gmsg,        \* message it holds between read and write
    hmsg,        \* message the handler holds between read and write
    clientIn,    \* messages the client sent, not yet read
    backendIn,   \* messages the backend sent, not yet read
    clientUp,    \* client peer connected
    backendUp,   \* backend peer connected
    readC,       \* messages read from clientConn
    wroteB,      \* messages written to targetConn
    readB,       \* messages read from targetConn
    wroteC,      \* messages written to clientConn
    config,      \* config.Router as the ports to listen on, <<>> before it is read
    mpc,         \* position of main
    stop,        \* a signal is waiting in the stop channel
    servers,     \* the servers slice, as the indices of the listeners
    serversMutex,\* 0: free, i > 0: held by start task i, -1: held by main
    spc,         \* position of each start task
    inShutdown,  \* per server: Shutdown was called on it
    bindErr,     \* listeners whose ListenAndServe failed to bind
    active,      \* per listener: HTTP requests being served
    sessions,    \* per listener: relay sessions (hijacked connections) running
    timer,       \* the shutdown context: "unset", "armed", "done"
    fan,         \* servers the shutdown loop has passed
    sd,          \* per server: position of its shutdown task
    shutdownWg,  \* counter of shutdownWg
    waiter,      \* the task that waits for shutdownWg: "none", "waiting", "closed"
    exit,        \* exit code of the process, -1 while it runs
    router,      \* config.Router as the route list of each listener
    xpc,         \* position of main's loop over config.Router
    serverConfig,\* the loop variable, as an index into router; 0 before the loop
    serverCfg,   \* the parameter of each start task's function, in start order
    calls        \* handler calls the mux handlers made

handlerVars == <<pc, routes, r, idx, route, host, w, outreq, results, wsURL, upgrades>>
connVars == <<targetConn, clientConn>>
relayVars == <<gpc, gmsg, hmsg, clientIn, backendIn, clientUp, backendUp,
               readC, wroteB, readB, wroteC>>
mainVars == <<config, mpc, stop, servers, serversMutex, spc, inShutdown, bindErr,
              active, sessions, timer, fan, sd, shutdownWg, waiter, exit>>
muxVars == <<router, xpc, serverConfig, serverCfg, calls>>
vars == <<handlerVars, connVars, relayVars, mainVars, muxVars>>

\* ------------------------------------------------------------ helpers

\* HasPrefix with its arguments exchanged.
HasPrefixSwapped(s, prefix) ==
    /\ Len(prefix) >= Len(s)
    /\ SubSeq(prefix, 1, Len(s)) = s

\* A prefix test that wants the prefix to end where a path segment ends.
HasPrefixAtBoundary(s, prefix) ==
    /\ Len(s) >= Len(prefix)
    /\ SubSeq(s, 1, Len(prefix)) = prefix
    /\ \/ Len(s) = Len(prefix)
       \/ s[Len(prefix) + 1] = "/"
       \/ (prefix # <<>> /\ prefix[Len(prefix)] = "/")

\* strings.HasPrefix(s, prefix)
HasPrefix(s, prefix) ==
    /\ Len(s) >= Len(prefix)
    /\ SubSeq(s, 1, Len(prefix)) = prefix

\* strings.TrimPrefix(s, prefix), as the first variant of handleHTTP uses it.
TrimPrefix(s, prefix) ==
    IF HasPrefix(s, prefix) THEN SubSeq(s, Len(prefix) + 1, Len(s)) ELSE s

\* A loop that prefers the longest matching route path to the first one.
RangeRoutesLongest(rs, path, i) ==
    LET m == { j \in i..Len(rs) : HasPrefix(path, rs[j].Path) }
    IN  IF m = {} THEN 0
        ELSE CHOOSE j \in m : \A k \in m : Len(rs[k].Path) <= Len(rs[j].Path)

\* for _, route := range routes { if strings.HasPrefix(path, route.Path) {...; return} }
\* the index the loop returns in, starting at i; 0 when it falls through.
RECURSIVE RangeRoutes(_, _, _)
RangeRoutes(rs, path, i) ==
    IF i > Len(rs) THEN 0
    ELSE IF HasPrefix(path, rs[i].Path) THEN i
    ELSE RangeRoutes(rs, path, i + 1)

\* The host taken as configured, without the default.
TargetHostAsIs(rt) == rt.Host

\* host := route.Host; if len(host) == 0 { host = "localhost" }
TargetHost(rt) == IF rt.Host = "" THEN "localhost" ELSE rt.Host

\* url.Parse(fmt.Sprintf("http://%s:%d", host, port)): a port that is not
\* all digits is an error; the URL has no path and no query.
UrlParseOK(h, port) == port >= 0
TargetURL(h, port) == [Scheme |-> "http", Host |-> h, Port |-> port, Path |-> <<>>, RawQuery |-> ""]

\* http.Error / http.NotFound / the copied backend status: one WriteHeader.
WriteStatus(rw, code) == [rw EXCEPT !.statuses = Append(@, code)]

\* "ip:port" and the ip of it (net.SplitHostPort), as header values.
AddrString(a) == <<a.ip, a.port>>
ClientIP(a) == <<a.ip>>

\* ------------------------------------------------------------ reverse proxy

\* singleJoiningSlash(a, b) of net/http/httputil
SingleJoiningSlash(a, b) ==
    LET aslash == Len(a) > 0 /\ a[Len(a)] = "/"
        bslash == Len(b) > 0 /\ b[1] = "/"
    IN  IF aslash /\ bslash THEN a \o Tail(b)
        ELSE IF ~aslash /\ ~bslash THEN a \o <<"/">> \o b
        ELSE a \o b

\* The director NewSingleHostReverseProxy(target) installs (rewriteRequestURL).
OriginalDirector(req, target) ==
    [req EXCEPT
        !.URL = [Scheme |-> target.Scheme,
                 Host |-> target.Host,
                 Port |-> target.Port,
                 Path |-> SingleJoiningSlash(target.Path, req.URL.Path),
                 RawQuery |->
                    IF target.RawQuery = "" \/ req.URL.RawQuery = ""
                    THEN target.RawQuery \o req.URL.RawQuery
                    ELSE target.RawQuery \o "&" \o req.URL.RawQuery]]

\* A director that leaves the query to the target URL's own.
DirectorTargetQuery(req, inbound, target) ==
    LET d == OriginalDirector(req, target)
    IN  [d EXCEPT
            !.URL.Path = inbound.Path,
            !.URL.RawQuery = target.RawQuery,
            !.Header.XFH = <<d.Host>>,
            !.Header.XFP = <<"http">>,
            !.Header.XFF = <<AddrString(inbound.RemoteAddr)>>]

\* proxy.Director of handleHTTP: inbound is the handler's r, req the outbound
\* request the proxy passes in.
Director(req, inbound, target) ==
    LET d == OriginalDirector(req, target)
    IN  [d EXCEPT
            !.URL.Path = inbound.Path,
            !.URL.RawQuery = IF inbound.RawQuery # "" THEN inbound.RawQuery ELSE @,
            !.Header.XFH = <<d.Host>>,
            !.Header.XFP = <<"http">>,
            !.Header.XFF = <<AddrString(inbound.RemoteAddr)>>]

\* outreq := req.Clone(ctx) of ReverseProxy.ServeHTTP
CloneRequest(inbound) ==
    [URL |-> [Scheme |-> "", Host |-> "", Port |-> 0,
              Path |-> inbound.Path, RawQuery |-> inbound.RawQuery],
     Host |-> inbound.Host,
     Header |-> inbound.Header]

\* ReverseProxy.ServeHTTP after the director ran: the client IP is appended
\* to whatever X-Forwarded-For the outbound request holds by then.
AppendClientIP(req, inbound) ==
    [req EXCEPT !.Header.XFF = @ \o <<ClientIP(inbound.RemoteAddr)>>]

\* The request ReverseProxy.ServeHTTP passes to the transport.
ProxyRequest(inbound, target) ==
    AppendClientIP(Director(CloneRequest(inbound), inbound, target), inbound)

\* An error handler that answers 500 as the other error paths do.
ErrorHandlerInternal(rw) == WriteStatus(rw, 500)

\* proxy.ErrorHandler: http.Error(rw, ..., http.StatusBadGateway)
ErrorHandler(rw) == WriteStatus(rw, 502)

\* ------------------------------------------------------------ Init

Init ==
    /\ pc = "idle"
    /\ routes = <<>>
    /\ r = NoRequest
    /\ idx = 0
    /\ route = NoRoute
    /\ host = ""
    /\ w = [statuses |-> <<>>, hijacked |-> FALSE]
    /\ outreq = <<>>
    /\ results = <<>>
    /\ wsURL = <<>>
    /\ upgrades = 0
    /\ targetConn = "nil"
    /\ clientConn = "nil"
    /\ gpc = "none"
    /\ gmsg = NoMessage
    /\ hmsg = NoMessage
    /\ clientIn = <<>>
    /\ backendIn = <<>>
    /\ clientUp = FALSE
    /\ backendUp = FALSE
    /\ readC = <<>>
    /\ wroteB = <<>>
    /\ readB = <<>>
    /\ wroteC = <<>>
    /\ config = <<>>
    /\ mpc = "load"
    /\ stop = FALSE
    /\ servers = <<>>
    /\ serversMutex = 0
    /\ spc = [i \in Listeners |-> "none"]
    /\ inShutdown = [i \in Listeners |-> FALSE]
    /\ bindErr = {}
    /\ active = [i \in Listeners |-> 0]
    /\ sessions = [i \in Listeners |-> 0]
    /\ timer = "unset"
    /\ fan = 0
    /\ sd = [i \in Listeners |-> "none"]
    /\ shutdownWg = 0
    /\ waiter = "none"
    /\ exit = -1
    /\ router = <<>>
    /\ xpc = "load"
    /\ serverConfig = 0
    /\ serverCfg = <<>>
    /\ calls = <<>>

\* ------------------------------------------------------------ dispatch

\* The mux handler of a listener: websocket.IsWebSocketUpgrade(r) decides
\* between handleWebSocket and handleHTTP, both called with the listener's
\* serverCfg.Redirect.
Serve ==
    /\ pc = "idle"
    /\ \E rs \in RouteTables, req \in Requests :
        /\ routes' = <<rs>>
        /\ r' = req
        /\ pc' = IF req.ws THEN "handleWebSocket" ELSE "handleHTTP"
    /\ UNCHANGED <<idx, route, host, w, outreq, results, wsURL, upgrades, connVars, relayVars>>
    /\ UNCHANGED <<mainVars, muxVars>>

\* ------------------------------------------------------------ handleHTTP

\* The route loop of handleHTTP up to the host default, or http.NotFound.
HTTPMatch ==
    /\ pc = "handleHTTP"
    /\ LET i == RangeRoutes(routes[1], r.Path, 1)
       IN  IF i = 0
           THEN /\ w' = WriteStatus(w, 404)
                /\ pc' = "done"
                /\ UNCHANGED <<idx, route, host>>
           ELSE /\ idx' = i
                /\ route' = routes[1][i]
                /\ host' = TargetHost(routes[1][i])
                /\ pc' = "http_url"
                /\ UNCHANGED w
    /\ UNCHANGED <<routes, r, outreq, results, wsURL, upgrades, connVars, relayVars>>
    /\ UNCHANGED <<mainVars, muxVars>>

\* url.Parse of the target; an error answers 500 and returns.
HTTPBuildURL ==
    /\ pc = "http_url"
    /\ IF UrlParseOK(host, route.Port)
       THEN /\ pc' = "http_proxy"
            /\ UNCHANGED w
       ELSE /\ w' = WriteStatus(w, 500)
            /\ pc' = "done"
    /\ routes' = <<>>
    /\ idx' = 0
    /\ UNCHANGED <<r, route, host, outreq, results, wsURL, upgrades, connVars, relayVars>>
    /\ UNCHANGED <<mainVars, muxVars>>

\* The proxy call of the first variant of handleHTTP, which proxies the
\* request with the matched route path trimmed off its path.
HTTPProxyTrimmed ==
    /\ pc = "http_proxy"
    /\ outreq' = Append(outreq,
                    ProxyRequest([r EXCEPT !.Path = TrimPrefix(r.Path, route.Path)],
                                 TargetURL(host, route.Port)))
    /\ \E res \in BackendStatuses \cup {0} :
        /\ results' = Append(results, res)
        /\ w' = IF res = 0 THEN ErrorHandler(w) ELSE WriteStatus(w, res)
    /\ pc' = "done"
    /\ UNCHANGED <<routes, r, idx, route, host, wsURL, upgrades, connVars, relayVars>>
    /\ UNCHANGED <<mainVars, muxVars>>

\* proxy.ServeHTTP(w, r): one round trip with the rewritten request; the
\* backend's status is copied to the client, an error goes to ErrorHandler.
HTTPProxy ==
    /\ pc = "http_proxy"
    /\ outreq' = Append(outreq, ProxyRequest(r, TargetURL(host, route.Port)))
    /\ \E res \in BackendStatuses \cup {0} :
        /\ results' = Append(results, res)
        /\ w' = IF res = 0 THEN ErrorHandler(w) ELSE WriteStatus(w, res)
    /\ pc' = "done"
    /\ UNCHANGED <<routes, r, idx, route, host, wsURL, upgrades, connVars, relayVars>>
    /\ UNCHANGED <<mainVars, muxVars>>

\* ------------------------------------------------------------ handleWebSocket

\* The dial URL of the first variant of handleWebSocket, which holds no path.
WsURLNoPath(h, port, path) == [Scheme |-> "ws", Host |-> h, Port |-> port, Path |-> <<>>]

\* fmt.Sprintf("ws://%s:%d%s", host, route.Port, r.URL.Path)
WsURL(h, port, path) == [Scheme |-> "ws", Host |-> h, Port |-> port, Path |-> path]

\* The route loop of handleWebSocket up to the host default, or http.NotFound.
WSMatch ==
    /\ pc = "handleWebSocket"
    /\ LET i == RangeRoutes(routes[1], r.Path, 1)
       IN  IF i = 0
           THEN /\ w' = WriteStatus(w, 404)
                /\ pc' = "done"
                /\ UNCHANGED <<idx, route, host>>
           ELSE /\ idx' = i
                /\ route' = routes[1][i]
                /\ host' = TargetHost(routes[1][i])
                /\ pc' = "ws_dial"
                /\ UNCHANGED w
    /\ UNCHANGED <<routes, r, outreq, results, wsURL, upgrades, connVars, relayVars>>
    /\ UNCHANGED <<mainVars, muxVars>>

\* A dial whose error branch answers 500 and goes on to the upgrade.
WSDialNoReturn ==
    /\ pc = "ws_dial"
    /\ wsURL' = Append(wsURL, WsURL(host, route.Port, r.Path))
    /\ \E ok \in BOOLEAN :
        IF ok /\ UrlParseOK(host, route.Port)
        THEN /\ targetConn' = "open"
             /\ backendUp' = TRUE
             /\ UNCHANGED w
        ELSE /\ w' = WriteStatus(w, 500)
             /\ UNCHANGED <<targetConn, backendUp>>
    /\ pc' = "ws_upgrade"
    /\ routes' = <<>>
    /\ idx' = 0
    /\ UNCHANGED <<r, route, host, outreq, results, upgrades, clientConn,
                   gpc, gmsg, hmsg, clientIn, backendIn, clientUp,
                   readC, wroteB, readB, wroteC>>
    /\ UNCHANGED <<mainVars, muxVars>>

\* websocket.DefaultDialer.Dial(wsURL, nil): an unparseable URL always
\* fails, any other dial may; a failure answers 500 and returns, a success
\* registers the deferred targetConn.Close().
WSDial ==
    /\ pc = "ws_dial"
    /\ wsURL' = Append(wsURL, WsURL(host, route.Port, r.Path))
    /\ \E ok \in BOOLEAN :
        IF ok /\ UrlParseOK(host, route.Port)
        THEN /\ targetConn' = "open"
             /\ backendUp' = TRUE
             /\ pc' = "ws_upgrade"
             /\ UNCHANGED w
        ELSE /\ w' = WriteStatus(w, 500)
             /\ pc' = "done"
             /\ UNCHANGED <<targetConn, backendUp>>
    /\ routes' = <<>>
    /\ idx' = 0
    /\ UNCHANGED <<r, route, host, outreq, results, upgrades, clientConn,
                   gpc, gmsg, hmsg, clientIn, backendIn, clientUp,
                   readC, wroteB, readB, wroteC>>
    /\ UNCHANGED <<mainVars, muxVars>>

\* upgrader.Upgrade(w, r, nil).  "ok": the connection is hijacked and the
\* goroutine of the client-to-backend direction is started.  "rejected": the
\* upgrader answers the bad handshake itself (400) and the handler's
\* http.Error follows.  "lost": the connection is hijacked and the handshake
\* reply fails; the upgrader closes the connection, http.Error follows.
WSUpgrade ==
    /\ pc = "ws_upgrade"
    /\ upgrades' = upgrades + 1
    /\ \E res \in {"ok", "rejected", "lost"} :
        CASE res = "ok" ->
                /\ w' = [w EXCEPT !.hijacked = TRUE]
                /\ clientConn' = "open"
                /\ clientUp' = TRUE
                /\ gpc' = "read"
                /\ pc' = "b2c_read"
          [] res = "rejected" ->
                /\ w' = WriteStatus(WriteStatus(w, 400), 500)
                /\ pc' = "defer_target"
                /\ UNCHANGED <<clientConn, clientUp, gpc>>
          [] res = "lost" ->
                /\ w' = WriteStatus([w EXCEPT !.hijacked = TRUE], 500)
                /\ pc' = "defer_target"
                /\ UNCHANGED <<clientConn, clientUp, gpc>>
    /\ UNCHANGED <<routes, r, idx, route, host, outreq, results, wsURL, targetConn,
                   gmsg, hmsg, clientIn, backendIn, backendUp,
                   readC, wroteB, readB, wroteC>>
    /\ UNCHANGED <<mainVars, muxVars>>

\* A write that sends every message as a text message.
WriteMessageAsText(written, messageType, message) ==
    Append(written, [messageType |-> 1, message |-> message])

\* conn.WriteMessage(messageType, message): the message appended to what the
\* connection carried so far.
WriteMessage(written, messageType, message) ==
    Append(written, [messageType |-> messageType, message |-> message])

\* A read that a Close() of the connection on this side does not interrupt.
GoReadUninterrupted ==
    /\ gpc = "read"
    /\ IF clientIn # <<>>
       THEN /\ gmsg' = Head(clientIn)
            /\ clientIn' = Tail(clientIn)
            /\ readC' = Append(readC, Head(clientIn))
            /\ gpc' = "write"
       ELSE /\ ~clientUp
            /\ gpc' = "exit"
            /\ UNCHANGED <<gmsg, clientIn, readC>>
    /\ UNCHANGED <<handlerVars, connVars, hmsg, backendIn, clientUp, backendUp,
                   wroteB, readB, wroteC>>
    /\ UNCHANGED <<mainVars, muxVars>>

\* The goroutine: clientConn.ReadMessage().  It returns the next message, or
\* an error once the connection is closed here or the client is gone.
GoRead ==
    /\ gpc = "read"
    /\ IF clientConn = "open" /\ clientIn # <<>>
       THEN /\ gmsg' = Head(clientIn)
            /\ clientIn' = Tail(clientIn)
            /\ readC' = Append(readC, Head(clientIn))
            /\ gpc' = "write"
       ELSE /\ clientConn = "closed" \/ ~clientUp
            /\ gpc' = "exit"
            /\ UNCHANGED <<gmsg, clientIn, readC>>
    /\ UNCHANGED <<handlerVars, connVars, hmsg, backendIn, clientUp, backendUp,
                   wroteB, readB, wroteC>>
    /\ UNCHANGED <<mainVars, muxVars>>

\* A goroutine that writes what it read back to clientConn.
GoWriteToClient ==
    /\ gpc = "write"
    /\ \E ok \in BOOLEAN :
        /\ ok => clientConn = "open"
        /\ ~ok => (clientConn = "closed" \/ ~clientUp)
        /\ IF ok
           THEN /\ wroteC' = WriteMessage(wroteC, gmsg.messageType, gmsg.message)
                /\ gpc' = "read"
           ELSE /\ gpc' = "exit"
                /\ UNCHANGED wroteC
    /\ gmsg' = NoMessage
    /\ UNCHANGED <<handlerVars, connVars, hmsg, clientIn, backendIn, clientUp,
                   backendUp, readC, readB, wroteB>>
    /\ UNCHANGED <<mainVars, muxVars>>

\* The goroutine: targetConn.WriteMessage(messageType, message).  It fails on
\* a connection closed here, and may fail once the backend is gone.
GoWrite ==
    /\ gpc = "write"
    /\ \E ok \in BOOLEAN :
        /\ ok => targetConn = "open"
        /\ ~ok => (targetConn = "closed" \/ ~backendUp)
        /\ IF ok
           THEN /\ wroteB' = WriteMessage(wroteB, gmsg.messageType, gmsg.message)
                /\ gpc' = "read"
           ELSE /\ gpc' = "exit"
                /\ UNCHANGED wroteB
    /\ gmsg' = NoMessage
    /\ UNCHANGED <<handlerVars, connVars, hmsg, clientIn, backendIn, clientUp,
                   backendUp, readC, readB, wroteC>>
    /\ UNCHANGED <<mainVars, muxVars>>

\* The handler's loop: targetConn.ReadMessage(); an error leaves the loop.
RelayRead ==
    /\ pc = "b2c_read"
    /\ IF backendIn # <<>>
       THEN /\ hmsg' = Head(backendIn)
            /\ backendIn' = Tail(backendIn)
            /\ readB' = Append(readB, Head(backendIn))
            /\ pc' = "b2c_write"
       ELSE /\ ~backendUp
            /\ pc' = "defer_client"
            /\ UNCHANGED <<hmsg, backendIn, readB>>
    /\ UNCHANGED <<routes, r, idx, route, host, w, outreq, results, wsURL, upgrades,
                   connVars, gpc, gmsg, clientIn, clientUp, backendUp,
                   readC, wroteB, wroteC>>
    /\ UNCHANGED <<mainVars, muxVars>>

\* The handler's loop: clientConn.WriteMessage(messageType, message); an
\* error (possible once the client is gone) leaves the loop.
RelayWrite ==
    /\ pc = "b2c_write"
    /\ \E ok \in BOOLEAN :
        /\ ~ok => ~clientUp
        /\ IF ok
           THEN /\ wroteC' = WriteMessage(wroteC, hmsg.messageType, hmsg.message)
                /\ pc' = "b2c_read"
           ELSE /\ pc' = "defer_client"
                /\ UNCHANGED wroteC
    /\ hmsg' = NoMessage
    /\ UNCHANGED <<routes, r, idx, route, host, w, outreq, results, wsURL, upgrades,
                   connVars, gpc, gmsg, clientIn, backendIn, clientUp, backendUp,
                   readC, wroteB, readB>>
    /\ UNCHANGED <<mainVars, muxVars>>

\* return: the deferred clientConn.Close() runs first,
DeferClientClose ==
    /\ pc = "defer_client"
    /\ clientConn' = "closed"
    /\ pc' = "defer_target"
    /\ UNCHANGED <<routes, r, idx, route, host, w, outreq, results, wsURL, upgrades,
                   targetConn, relayVars>>
    /\ UNCHANGED <<mainVars, muxVars>>

\* A return on which no close of targetConn was deferred.
ReturnWithoutTargetClose ==
    /\ pc = "defer_target"
    /\ pc' = "done"
    /\ UNCHANGED <<routes, r, idx, route, host, w, outreq, results, wsURL, upgrades,
                   targetConn, clientConn, relayVars>>
    /\ UNCHANGED <<mainVars, muxVars>>

\* then the deferred targetConn.Close().
DeferTargetClose ==
    /\ pc = "defer_target"
    /\ targetConn' = "closed"
    /\ pc' = "done"
    /\ UNCHANGED <<routes, r, idx, route, host, w, outreq, results, wsURL, upgrades,
                   clientConn, relayVars>>
    /\ UNCHANGED <<mainVars, muxVars>>

\* ------------------------------------------------------------ the peers

\* The client sends a message on its upgraded connection.
ClientSend ==
    /\ clientConn = "open" /\ clientUp
    /\ Len(readC) + Len(clientIn) < MaxMsgs
    /\ \E m \in Messages : clientIn' = Append(clientIn, m)
    /\ UNCHANGED <<handlerVars, connVars, gpc, gmsg, hmsg, backendIn, clientUp,
                   backendUp, readC, wroteB, readB, wroteC>>
    /\ UNCHANGED <<mainVars, muxVars>>

\* The backend sends a message on the dialed connection.
BackendSend ==
    /\ targetConn = "open" /\ backendUp
    /\ Len(readB) + Len(backendIn) < MaxMsgs
    /\ \E m \in Messages : backendIn' = Append(backendIn, m)
    /\ UNCHANGED <<handlerVars, connVars, gpc, gmsg, hmsg, clientIn, clientUp,
                   backendUp, readC, wroteB, readB, wroteC>>
    /\ UNCHANGED <<mainVars, muxVars>>

\* The client closes its connection, or the network to it fails.
ClientDisconnect ==
    /\ clientConn = "open" /\ clientUp
    /\ clientUp' = FALSE
    /\ UNCHANGED <<handlerVars, connVars, gpc, gmsg, hmsg, clientIn, backendIn,
                   backendUp, readC, wroteB, readB, wroteC>>
    /\ UNCHANGED <<mainVars, muxVars>>

\* The backend closes its connection, or the network to it fails.
BackendDisconnect ==
    /\ targetConn = "open" /\ backendUp
    /\ backendUp' = FALSE
    /\ UNCHANGED <<handlerVars, connVars, gpc, gmsg, hmsg, clientIn, backendIn,
                   clientUp, readC, wroteB, readB, wroteC>>
    /\ UNCHANGED <<mainVars, muxVars>>

\* ------------------------------------------------------------ specification

\* The steps of the handler's own goroutine.
Handler ==
    \/ Serve
    \/ HTTPMatch
    \/ HTTPBuildURL
    \/ HTTPProxy
    \/ WSMatch
    \/ WSDial
    \/ WSUpgrade
    \/ RelayRead
    \/ RelayWrite
    \/ DeferClientClose
    \/ DeferTargetClose

\* The steps of the goroutine handleWebSocket starts.
Goroutine == GoRead \/ GoWrite

Next ==
    \/ Serve
    \/ HTTPMatch
    \/ HTTPBuildURL
    \/ HTTPProxy
    \/ WSMatch
    \/ WSDial
    \/ WSUpgrade
    \/ RelayRead
    \/ RelayWrite
    \/ DeferClientClose
    \/ DeferTargetClose
    \/ GoRead
    \/ GoWrite
    \/ ClientSend
    \/ BackendSend
    \/ ClientDisconnect
    \/ BackendDisconnect

Spec == Init /\ [][Next]_vars

\* The Go scheduler runs every runnable goroutine; the peers owe nothing.
FairSpec == Spec /\ WF_vars(Handler) /\ WF_vars(Goroutine)

\* ------------------------------------------------------------ main

reqVars == <<handlerVars, connVars, relayVars>>

Running == exit = -1

\* viper.ReadInConfig / viper.Unmarshal: a configuration, or log.Fatalf.
LoadConfig ==
    /\ Running /\ mpc = "load"
    /\ \/ \E c \in Configs :
            /\ config' = c
            /\ mpc' = IF Len(c) = 0 THEN "wait" ELSE "spawn"
            /\ UNCHANGED exit
       \/ /\ exit' = 1
          /\ UNCHANGED <<config, mpc>>
    /\ UNCHANGED <<stop, servers, serversMutex, spc, inShutdown, bindErr, active,
                   sessions, timer, fan, sd, shutdownWg, waiter, reqVars, muxVars>>

\* The listener the loop over config.Router is at.
NextToStart == CHOOSE i \in 1..Len(config) : spc[i] = "none" /\ \A j \in 1..(i - 1) : spc[j] # "none"

\* for _, serverConfig := range config.Router { wg.Add(1); go func(...) }
StartServers ==
    /\ Running /\ mpc = "spawn"
    /\ spc' = [spc EXCEPT ![NextToStart] = "new"]
    /\ mpc' = IF NextToStart = Len(config) THEN "wait" ELSE "spawn"
    /\ UNCHANGED <<config, stop, servers, serversMutex, inShutdown, bindErr, active,
                   sessions, timer, fan, sd, shutdownWg, waiter, exit, reqVars, muxVars>>

\* SIGINT or SIGTERM arrives; the stop channel buffers one signal. A signal
\* that arrives after main took one from the channel has no reader and is
\* left out.
Signal ==
    /\ Running /\ mpc # "load" /\ ~stop /\ timer = "unset"
    /\ stop' = TRUE
    /\ UNCHANGED <<config, mpc, servers, serversMutex, spc, inShutdown, bindErr, active,
                   sessions, timer, fan, sd, shutdownWg, waiter, exit, reqVars, muxVars>>

\* <-stop, then context.WithTimeout(context.Background(), 10*time.Second)
ReceiveSignal ==
    /\ Running /\ mpc = "wait" /\ stop
    /\ stop' = FALSE
    /\ timer' = "armed"
    /\ mpc' = "lock"
    /\ UNCHANGED <<config, servers, serversMutex, spc, inShutdown, bindErr, active,
                   sessions, fan, sd, shutdownWg, waiter, exit, reqVars, muxVars>>

\* serversMutex.Lock() of main
MainLock ==
    /\ Running /\ mpc = "lock" /\ serversMutex = 0
    /\ serversMutex' = -1
    /\ mpc' = "fanout"
    /\ UNCHANGED <<config, stop, servers, spc, inShutdown, bindErr, active,
                   sessions, timer, fan, sd, shutdownWg, waiter, exit, reqVars, muxVars>>

\* A main that calls Shutdown on one server after the other: the next call
\* starts when the one before has returned.
FanOutSequential ==
    /\ Running /\ mpc = "fanout" /\ fan < Len(servers)
    /\ \A k \in 1..fan : sd[servers[k]] \in {"returned", "failed"}
    /\ shutdownWg' = shutdownWg + 1
    /\ sd' = [sd EXCEPT ![servers[fan + 1]] = "spawned"]
    /\ fan' = fan + 1
    /\ UNCHANGED <<config, mpc, stop, servers, serversMutex, spc, inShutdown, bindErr,
                   active, sessions, timer, waiter, exit, reqVars, muxVars>>

\* for _, srv := range servers { shutdownWg.Add(1); go func(s) {...}(srv) }
FanOut ==
    /\ Running /\ mpc = "fanout" /\ fan < Len(servers)
    /\ shutdownWg' = shutdownWg + 1
    /\ sd' = [sd EXCEPT ![servers[fan + 1]] = "spawned"]
    /\ fan' = fan + 1
    /\ UNCHANGED <<config, mpc, stop, servers, serversMutex, spc, inShutdown, bindErr,
                   active, sessions, timer, waiter, exit, reqVars, muxVars>>

\* serversMutex.Unlock() of main, then the task that waits for shutdownWg.
MainUnlock ==
    /\ Running /\ mpc = "fanout" /\ fan = Len(servers)
    /\ serversMutex' = 0
    /\ waiter' = "waiting"
    /\ mpc' = "select"
    /\ UNCHANGED <<config, stop, servers, spc, inShutdown, bindErr, active,
                   sessions, timer, fan, sd, shutdownWg, exit, reqVars, muxVars>>

\* go func() { shutdownWg.Wait(); close(shutdownChan) }()
WaiterDone ==
    /\ Running /\ waiter = "waiting" /\ shutdownWg = 0
    /\ waiter' = "closed"
    /\ UNCHANGED <<config, mpc, stop, servers, serversMutex, spc, inShutdown, bindErr,
                   active, sessions, timer, fan, sd, shutdownWg, exit, reqVars, muxVars>>

\* The 10 seconds of the shutdown context pass.
DeadlineElapses ==
    /\ Running /\ timer = "armed"
    /\ timer' = "done"
    /\ UNCHANGED <<config, mpc, stop, servers, serversMutex, spc, inShutdown, bindErr,
                   active, sessions, fan, sd, shutdownWg, waiter, exit, reqVars, muxVars>>

\* A main that returns without waiting for either case of the select.
MainSelectAtOnce ==
    /\ Running /\ mpc = "select"
    /\ mpc' = "returned"
    /\ exit' = 0
    /\ UNCHANGED <<config, stop, servers, serversMutex, spc, inShutdown, bindErr,
                   active, sessions, timer, fan, sd, shutdownWg, waiter, reqVars, muxVars>>

\* select { case <-ctx.Done(): ... case <-shutdownChan: ... }; main returns
\* and the process ends with code 0.
MainSelect ==
    /\ Running /\ mpc = "select"
    /\ timer = "done" \/ waiter = "closed"
    /\ mpc' = "returned"
    /\ exit' = 0
    /\ UNCHANGED <<config, stop, servers, serversMutex, spc, inShutdown, bindErr,
                   active, sessions, timer, fan, sd, shutdownWg, waiter, reqVars, muxVars>>

\* ------------------------------------------------------------ start tasks

\* A start task that goes on to its append without waiting for the mutex.
StartLockUnguarded(i) ==
    /\ Running /\ spc[i] = "new"
    /\ serversMutex' = i
    /\ spc' = [spc EXCEPT ![i] = "locked"]
    /\ UNCHANGED <<config, mpc, stop, servers, inShutdown, bindErr, active,
                   sessions, timer, fan, sd, shutdownWg, waiter, exit, reqVars, muxVars>>

\* serversMutex.Lock() of a start task
StartLock(i) ==
    /\ Running /\ spc[i] = "new" /\ serversMutex = 0
    /\ serversMutex' = i
    /\ spc' = [spc EXCEPT ![i] = "locked"]
    /\ UNCHANGED <<config, mpc, stop, servers, inShutdown, bindErr, active,
                   sessions, timer, fan, sd, shutdownWg, waiter, exit, reqVars, muxVars>>

\* servers = append(servers, srv); serversMutex.Unlock()
StartAppend(i) ==
    /\ Running /\ spc[i] = "locked"
    /\ servers' = Append(servers, i)
    /\ serversMutex' = 0
    /\ spc' = [spc EXCEPT ![i] = "appended"]
    /\ UNCHANGED <<config, mpc, stop, inShutdown, bindErr, active,
                   sessions, timer, fan, sd, shutdownWg, waiter, exit, reqVars, muxVars>>

\* No listener of this process holds the port of listener i.
PortFree(i) ==
    \A j \in 1..Len(config) :
        j # i => ~(spc[j] = "serving" /\ ~inShutdown[j] /\ config[j] = config[i])

\* A start task that calls ListenAndServe before it has appended its server.
ListenAndServeFirst(i) ==
    /\ Running /\ spc[i] = "new"
    /\ IF inShutdown[i]
       THEN /\ spc' = [spc EXCEPT ![i] = "stopped"]
            /\ UNCHANGED <<bindErr, exit>>
       ELSE \E ok \in BOOLEAN :
            IF ok /\ PortFree(i)
            THEN /\ spc' = [spc EXCEPT ![i] = "serving"]
                 /\ UNCHANGED <<bindErr, exit>>
            ELSE /\ bindErr' = bindErr \cup {i}
                 /\ exit' = 1
                 /\ UNCHANGED spc
    /\ UNCHANGED <<config, mpc, stop, servers, serversMutex, inShutdown, active,
                   sessions, timer, fan, sd, shutdownWg, waiter, reqVars, muxVars>>

\* A start task that only logs a failed ListenAndServe and ends.
ListenAndServeLogsFailure(i) ==
    /\ Running /\ spc[i] = "appended"
    /\ IF inShutdown[i]
       THEN /\ spc' = [spc EXCEPT ![i] = "stopped"]
            /\ UNCHANGED bindErr
       ELSE \E ok \in BOOLEAN :
            IF ok /\ PortFree(i)
            THEN /\ spc' = [spc EXCEPT ![i] = "serving"]
                 /\ UNCHANGED bindErr
            ELSE /\ bindErr' = bindErr \cup {i}
                 /\ spc' = [spc EXCEPT ![i] = "stopped"]
    /\ UNCHANGED <<config, mpc, stop, servers, serversMutex, inShutdown, active,
                   sessions, timer, fan, sd, shutdownWg, waiter, exit, reqVars, muxVars>>

\* srv.ListenAndServe(): ErrServerClosed at once when Shutdown was called
\* before; else the port is bound and the accept loop runs, or the bind
\* fails (port taken here or elsewhere) and log.Fatalf ends the process
\* with code 1.
ListenAndServe(i) ==
    /\ Running /\ spc[i] = "appended"
    /\ IF inShutdown[i]
       THEN /\ spc' = [spc EXCEPT ![i] = "stopped"]
            /\ UNCHANGED <<bindErr, exit>>
       ELSE \E ok \in BOOLEAN :
            IF ok /\ PortFree(i)
            THEN /\ spc' = [spc EXCEPT ![i] = "serving"]
                 /\ UNCHANGED <<bindErr, exit>>
            ELSE /\ bindErr' = bindErr \cup {i}
                 /\ exit' = 1
                 /\ UNCHANGED spc
    /\ UNCHANGED <<config, mpc, stop, servers, serversMutex, inShutdown, active,
                   sessions, timer, fan, sd, shutdownWg, waiter, reqVars, muxVars>>

\* ------------------------------------------------------------ shutdown tasks

\* s.Shutdown(ctx) is entered: the server is marked and its listener closed,
\* so a running ListenAndServe returns ErrServerClosed, which the start task
\* only logs.
ShutdownCall(i) ==
    /\ Running /\ sd[i] = "spawned"
    /\ inShutdown' = [inShutdown EXCEPT ![i] = TRUE]
    /\ spc' = [spc EXCEPT ![i] = IF @ = "serving" THEN "stopped" ELSE @]
    /\ sd' = [sd EXCEPT ![i] = "waiting"]
    /\ UNCHANGED <<config, mpc, stop, servers, serversMutex, bindErr, active,
                   sessions, timer, fan, shutdownWg, waiter, exit, reqVars, muxVars>>

\* s.Shutdown(ctx) returns: nil once no connection of the server is active
\* (hijacked connections are not waited for), ctx.Err() once the deadline
\* has passed; the error is logged; shutdownWg.Done().
ShutdownReturns(i) ==
    /\ Running /\ sd[i] = "waiting"
    /\ active[i] = 0 \/ timer = "done"
    /\ sd' = [sd EXCEPT ![i] = IF active[i] = 0 THEN "returned" ELSE "failed"]
    /\ shutdownWg' = shutdownWg - 1
    /\ UNCHANGED <<config, mpc, stop, servers, serversMutex, spc, inShutdown, bindErr,
                   active, sessions, timer, fan, waiter, exit, reqVars, muxVars>>

\* ------------------------------------------------------------ traffic

\* Connections open on listeners 1..n, tracked by a server or hijacked.
RECURSIVE Open(_)
Open(n) == IF n = 0 THEN 0 ELSE active[n] + sessions[n] + Open(n - 1)

\* The accept loop of listener i takes a connection and its request goes to
\* the listener's handler.
Accept(i) ==
    /\ Running /\ spc[i] = "serving" /\ ~inShutdown[i]
    /\ Open(MaxListeners) < MaxActive
    /\ active' = [active EXCEPT ![i] = @ + 1]
    /\ UNCHANGED <<config, mpc, stop, servers, serversMutex, spc, inShutdown, bindErr,
                   sessions, timer, fan, sd, shutdownWg, waiter, exit, reqVars, muxVars>>

\* handleHTTP, or a handleWebSocket that did not upgrade, returns.
RequestDone(i) ==
    /\ Running /\ active[i] > 0
    /\ active' = [active EXCEPT ![i] = @ - 1]
    /\ UNCHANGED <<config, mpc, stop, servers, serversMutex, spc, inShutdown, bindErr,
                   sessions, timer, fan, sd, shutdownWg, waiter, exit, reqVars, muxVars>>

\* upgrader.Upgrade hijacks the connection: the server no longer tracks it,
\* the relay session runs on it.
Hijack(i) ==
    /\ Running /\ active[i] > 0
    /\ active' = [active EXCEPT ![i] = @ - 1]
    /\ sessions' = [sessions EXCEPT ![i] = @ + 1]
    /\ UNCHANGED <<config, mpc, stop, servers, serversMutex, spc, inShutdown, bindErr,
                   timer, fan, sd, shutdownWg, waiter, exit, reqVars, muxVars>>

\* handleWebSocket returns from a relay.
SessionDone(i) ==
    /\ Running /\ sessions[i] > 0
    /\ sessions' = [sessions EXCEPT ![i] = @ - 1]
    /\ UNCHANGED <<config, mpc, stop, servers, serversMutex, spc, inShutdown, bindErr,
                   active, timer, fan, sd, shutdownWg, waiter, exit, reqVars, muxVars>>

\* ------------------------------------------------------------ main: specification

\* The steps of main's own goroutine.
Main ==
    \/ LoadConfig
    \/ StartServers
    \/ ReceiveSignal
    \/ MainLock
    \/ FanOut
    \/ MainUnlock
    \/ MainSelect

\* The steps of the tasks main starts.
Tasks ==
    \/ WaiterDone
    \/ \E i \in Listeners :
        \/ StartLock(i)
        \/ StartAppend(i)
        \/ ListenAndServe(i)
        \/ ShutdownCall(i)
        \/ ShutdownReturns(i)

MainNext ==
    \/ LoadConfig
    \/ StartServers
    \/ Signal
    \/ ReceiveSignal
    \/ MainLock
    \/ FanOut
    \/ MainUnlock
    \/ WaiterDone
    \/ DeadlineElapses
    \/ MainSelect
    \/ \E i \in Listeners : StartLock(i)
    \/ \E i \in Listeners : StartAppend(i)
    \/ \E i \in Listeners : ListenAndServe(i)
    \/ \E i \in Listeners : ShutdownCall(i)
    \/ \E i \in Listeners : ShutdownReturns(i)
    \/ \E i \in Listeners : Accept(i)
    \/ \E i \in Listeners : RequestDone(i)
    \/ \E i \in Listeners : Hijack(i)
    \/ \E i \in Listeners : SessionDone(i)

MainSpec == Init /\ [][MainNext]_vars

\* Every runnable goroutine runs, and time passes; signals and requests
\* owe nothing.
FairMainSpec ==
    MainSpec /\ WF_vars(Main) /\ WF_vars(Tasks) /\ WF_vars(DeadlineElapses)

\* ------------------------------------------------------------ per-listener handlers

\* viper.Unmarshal(&config): the route lists of the listeners.
MuxLoadConfig ==
    /\ xpc = "load"
    /\ \E c \in Routers :
        /\ router' = c
        /\ xpc' = IF Len(c) = 0 THEN "wait" ELSE "range"
    /\ UNCHANGED <<serverConfig, serverCfg, calls, reqVars, mainVars>>

\* for _, serverConfig := range config.Router { go func(serverCfg ServerConfig)
\* {...}(serverConfig) }: the loop variable takes the next element and the
\* go statement copies it into the parameter of the new start task.
MuxStartServer ==
    /\ xpc = "range"
    /\ serverConfig' = serverConfig + 1
    /\ serverCfg' = Append(serverCfg, router[serverConfig'])
    /\ xpc' = IF serverConfig' = Len(router) THEN "wait" ELSE "range"
    /\ UNCHANGED <<router, calls, reqVars, mainVars>>

\* The handler to call for request req with routes rs.
HandlerCall(l, req, rs) ==
    [listener |-> l,
     fn |-> IF req.ws THEN "handleWebSocket" ELSE "handleHTTP",
     r |-> req,
     routes |-> rs]

\* A mux handler that reads the loop variable of main when a request comes.
MuxHandlerLoopVariable(l) ==
    /\ l <= Len(serverCfg)
    /\ calls = <<>>
    /\ \E req \in Requests :
        calls' = <<HandlerCall(l, req, router[serverConfig])>>
    /\ UNCHANGED <<router, xpc, serverConfig, serverCfg, reqVars, mainVars>>

\* The mux handler of start task l gets a request: handleWebSocket and
\* return, or handleHTTP, with serverCfg.Redirect of its own task.
MuxHandler(l) ==
    /\ l <= Len(serverCfg)
    /\ calls = <<>>
    /\ \E req \in Requests :
        calls' = <<HandlerCall(l, req, serverCfg[l])>>
    /\ UNCHANGED <<router, xpc, serverConfig, serverCfg, reqVars, mainVars>>

MuxNext ==
    \/ MuxLoadConfig
    \/ MuxStartServer
    \/ \E l \in Listeners : MuxHandler(l)

MuxSpec == Init /\ [][MuxNext]_vars

\* ------------------------------------------------------------ first variant

\* Config.Routes entries of the first variant: a path and a port; the
\* target host is always localhost.
FirstRoutes ==
    { [Path |-> p, Host |-> "localhost", Port |-> b.Port] : p \in RoutePaths, b \in Backends }

\* Config.Routes values.
FirstRouteTables == UNION { [1..n -> FirstRoutes] : n \in 0..MaxRoutes }

\* What ReverseProxy.ServeHTTP sends with the director that
\* NewSingleHostReverseProxy installs and nothing more.
FirstProxyRequest(inbound, target) ==
    AppendClientIP(OriginalDirector(CloneRequest(inbound), target), inbound)

\* The route handler of the first variant gets a request that is no upgrade
\* request and calls handleHTTP(w, r, config).
FirstServe ==
    /\ pc = "idle"
    /\ \E rs \in FirstRouteTables, req \in { q \in Requests : ~q.ws } :
        /\ routes' = <<rs>>
        /\ r' = req
    /\ pc' = "first_handleHTTP"
    /\ UNCHANGED <<idx, route, host, w, outreq, results, wsURL, upgrades, connVars, relayVars>>
    /\ UNCHANGED <<mainVars, muxVars>>

\* A handleHTTP of the first variant that proxies the request as it came.
FirstHandleHTTPKeepsPath ==
    /\ pc = "first_handleHTTP"
    /\ LET i == RangeRoutes(routes[1], r.Path, 1)
       IN  IF i = 0
           THEN /\ w' = WriteStatus(w, 404)
                /\ UNCHANGED <<idx, route, r, outreq, results>>
           ELSE /\ idx' = i
                /\ route' = routes[1][i]
                /\ IF ~UrlParseOK("localhost", routes[1][i].Port)
                   THEN /\ w' = WriteStatus(w, 500)
                        /\ UNCHANGED <<r, outreq, results>>
                   ELSE /\ UNCHANGED r
                        /\ outreq' = Append(outreq,
                                FirstProxyRequest(r', TargetURL("localhost", routes[1][i].Port)))
                        /\ \E res \in BackendStatuses \cup {0} :
                            /\ results' = Append(results, res)
                            /\ w' = WriteStatus(w, IF res = 0 THEN 502 ELSE res)
    /\ pc' = "done"
    /\ UNCHANGED <<routes, host, wsURL, upgrades, connVars, relayVars>>
    /\ UNCHANGED <<mainVars, muxVars>>

\* handleHTTP of the first variant: the route loop; url.Parse of
\* http://localhost:{port}, an error answers 500; r.URL.Path =
\* strings.TrimPrefix(r.URL.Path, route.Path); proxy.ServeHTTP(w, r) with the
\* default director and the default error handler (502); http.NotFound when
\* no route matches.
FirstHandleHTTP ==
    /\ pc = "first_handleHTTP"
    /\ LET i == RangeRoutes(routes[1], r.Path, 1)
       IN  IF i = 0
           THEN /\ w' = WriteStatus(w, 404)
                /\ UNCHANGED <<idx, route, r, outreq, results>>
           ELSE /\ idx' = i
                /\ route' = routes[1][i]
                /\ IF ~UrlParseOK("localhost", routes[1][i].Port)
                   THEN /\ w' = WriteStatus(w, 500)
                        /\ UNCHANGED <<r, outreq, results>>
                   ELSE /\ r' = [r EXCEPT !.Path = TrimPrefix(r.Path, routes[1][i].Path)]
                        /\ outreq' = Append(outreq,
                                FirstProxyRequest(r', TargetURL("localhost", routes[1][i].Port)))
                        /\ \E res \in BackendStatuses \cup {0} :
                            /\ results' = Append(results, res)
                            /\ w' = WriteStatus(w, IF res = 0 THEN 502 ELSE res)
    /\ pc' = "done"
    /\ UNCHANGED <<routes, host, wsURL, upgrades, connVars, relayVars>>
    /\ UNCHANGED <<mainVars, muxVars>>

FirstNext ==
    \/ FirstServe
    \/ FirstHandleHTTP

FirstSpec == Init /\ [][FirstNext]_vars

\* ------------------------------------------------------------ properties

\* p is a literal prefix of s: character by character, nothing normalised.
LiteralPrefix(p, s) ==
    /\ Len(p) <= Len(s)
    /\ \A i \in 1..Len(p) : s[i] = p[i]

\* The indices of the entries of rs whose path is a literal prefix of path.
Matching(rs, path) == { j \in 1..Len(rs) : LiteralPrefix(rs[j].Path, path) }

\* The handler has left its route loop with a match and the loop's state
\* is still there.
AtMatch == pc \in {"http_url", "ws_dial"} /\ routes # <<>>

\* C1: handleHTTP and handleWebSocket both select the entry with the
\* smallest index whose path is a literal prefix of the request path, also
\* when a later entry is a longer matching prefix.
C1_FirstMatchWins ==
    AtMatch =>
        /\ idx \in Matching(routes[1], r.Path)
        /\ \A j \in Matching(routes[1], r.Path) : idx <= j
        /\ route = routes[1][idx]

\* Routes [/a -> 9000, /ab -> 9001] and path /ab/x: the first entry is
\* selected by handleWebSocket although the second is the longer prefix.
C1_Witness ==
    /\ pc = "ws_dial"
    /\ routes # <<>>
    /\ Len(routes[1]) = 2
    /\ routes[1][1].Path = <<"/", "a">>
    /\ routes[1][2].Path = <<"/", "a", "b">>
    /\ routes[1][1].Port = 9000
    /\ routes[1][2].Port = 9001
    /\ r.Path = <<"/", "a", "b", "/", "x">>
    /\ idx = 1
    /\ route.Port = 9000

\* The handler has acted on a request that no entry of routes matches.
Unmatched ==
    /\ routes # <<>>
    /\ pc \notin {"idle", "handleHTTP", "handleWebSocket"}
    /\ Matching(routes[1], r.Path) = {}

\* C2: a request, plain or upgrade, whose path has none of the route paths
\* as a prefix is answered with exactly 404 and reaches no backend: no proxy
\* call, no dial, no upgrade.
C2_UnmatchedIs404 ==
    Unmatched =>
        /\ pc = "done"
        /\ w.statuses = <<404>>
        /\ ~w.hijacked
        /\ outreq = <<>>
        /\ results = <<>>
        /\ wsURL = <<>>
        /\ upgrades = 0
        /\ targetConn = "nil"
        /\ clientConn = "nil"
        /\ gpc = "none"

\* An upgrade request for /b on a listener whose two routes are /a and /ab.
C2_Witness ==
    /\ Unmatched
    /\ r.ws
    /\ Len(routes[1]) = 2
    /\ r.Path = <<"/", "b">>
    /\ w.statuses = <<404>>

\* A plain-HTTP request was matched and its handler has returned.
HTTPMatchedDone == pc = "done" /\ ~r.ws /\ route # NoRoute

C4_QueryPreserved ==
    /\ \A i \in 1..Len(outreq) : outreq[i].URL.RawQuery = r.RawQuery
    /\ (HTTPMatchedDone /\ route.Port >= 0) => Len(outreq) = 1

\* A request with the query q=1&r=2 reaches the backend with q=1&r=2.
C4_Witness ==
    /\ HTTPMatchedDone
    /\ r.RawQuery = "q=1&r=2"
    /\ Len(outreq) = 1
    /\ outreq[1].URL.RawQuery = "q=1&r=2"

\* The backend host a matched route stands for.
ExpectedHost == IF route.Host = "" THEN "localhost" ELSE route.Host

\* C5: the backend host used, by the HTTP forwarder and by the WebSocket
\* dial, is the route's host when that is non-empty and "localhost" when it
\* is empty, with the route's port.
C5_DefaultHost ==
    /\ \A i \in 1..Len(outreq) :
        outreq[i].URL.Host = ExpectedHost /\ outreq[i].URL.Port = route.Port
    /\ \A i \in 1..Len(wsURL) :
        wsURL[i].Host = ExpectedHost /\ wsURL[i].Port = route.Port
    /\ (HTTPMatchedDone /\ route.Port >= 0) => Len(outreq) = 1
    /\ (r.ws /\ route # NoRoute /\ pc \notin {"handleWebSocket", "ws_dial"})
            => Len(wsURL) = 1

\* A route with empty host and port 9000 is forwarded to localhost:9000.
C5_Witness ==
    /\ HTTPMatchedDone
    /\ route.Host = ""
    /\ route.Port = 9000
    /\ Len(outreq) = 1
    /\ outreq[1].URL.Host = "localhost"
    /\ outreq[1].URL.Port = 9000

\* C6: for a matched plain-HTTP request, a target URL that cannot be built
\* is answered 500 without any backend attempt, a proxy error is answered
\* 502, and at most one backend attempt is made.
C6_ErrorStatuses ==
    /\ Len(outreq) <= 1
    /\ Len(results) = Len(outreq)
    /\ HTTPMatchedDone =>
        IF route.Port < 0
        THEN w.statuses = <<500>> /\ outreq = <<>>
        ELSE /\ Len(results) = 1
             /\ results[1] = 0 => w.statuses = <<502>>
             /\ results[1] # 0 => w.statuses = <<results[1]>>

\* The one round trip of a matched request failed and 502 was answered.
C6_Witness ==
    /\ HTTPMatchedDone
    /\ results = <<0>>
    /\ w.statuses = <<502>>

\* C7: the forwarded request carries X-Forwarded-Host equal to the inbound
\* Host, X-Forwarded-Proto equal to "http" and X-Forwarded-For equal to the
\* client's remote address, whatever the client supplied for the three.
C7_ForwardedHeaders ==
    \A i \in 1..Len(outreq) :
        /\ outreq[i].Header.XFH = <<r.Host>>
        /\ outreq[i].Header.XFP = <<"http">>
        /\ outreq[i].Header.XFF = <<AddrString(r.RemoteAddr)>>

\* The part of C7 the handler achieves: X-Forwarded-Host and
\* X-Forwarded-Proto are as stated, and X-Forwarded-For starts with the
\* client's remote address and holds nothing the client supplied.
C7_ForwardedHostProto ==
    \A i \in 1..Len(outreq) :
        /\ outreq[i].Header.XFH = <<r.Host>>
        /\ outreq[i].Header.XFP = <<"http">>
        /\ outreq[i].Header.XFF = <<AddrString(r.RemoteAddr), ClientIP(r.RemoteAddr)>>

\* The dial of a matched upgrade request has failed.
DialFailed == r.ws /\ wsURL # <<>> /\ targetConn = "nil"

\* C8: the client connection is upgraded only after the backend dial has
\* succeeded; when the dial fails the client gets 500, the inbound
\* connection is never upgraded and no relay task starts.
C8_DialBeforeUpgrade ==
    /\ (upgrades > 0 \/ clientConn # "nil" \/ w.hijacked \/ gpc # "none")
            => (wsURL # <<>> /\ targetConn # "nil")
    /\ DialFailed =>
        /\ pc = "done"
        /\ w.statuses = <<500>>
        /\ upgrades = 0
        /\ clientConn = "nil"
        /\ ~w.hijacked
        /\ gpc = "none"
        /\ pc \notin {"b2c_read", "b2c_write"}

\* A dial to a well-formed URL failed and the client was answered 500.
C8_Witness ==
    /\ DialFailed
    /\ route.Port >= 0
    /\ pc = "done"
    /\ w.statuses = <<500>>

\* a is a prefix of b.
IsPrefix(a, b) == Len(a) <= Len(b) /\ SubSeq(b, 1, Len(a)) = a

\* C9: in each direction the sequence of (message type, payload) pairs
\* written to the destination is at every moment a prefix of the sequence
\* read from the source, which is a prefix of what the source sent.
C9_RelayFIFO ==
    /\ IsPrefix(wroteB, readC)
    /\ IsPrefix(wroteC, readB)
    /\ Len(readC) - Len(wroteB) <= 1
    /\ Len(readB) - Len(wroteC) <= 1
    /\ gpc = "write" => (Len(readC) = Len(wroteB) + 1 /\ gmsg = readC[Len(readC)])
    /\ pc = "b2c_write" => (Len(readB) = Len(wroteC) + 1 /\ hmsg = readB[Len(readB)])

\* Two messages of different types went each way, both directions active.
C9_Witness ==
    /\ Len(wroteB) = 2
    /\ wroteB[1].messageType # wroteB[2].messageType
    /\ Len(wroteC) = 2
    /\ wroteC[1].messageType # wroteC[2].messageType
    /\ wroteC[1] # wroteB[1]

\* A direction of the relay has met a read or write failure.
RelayFailure == gpc = "exit" \/ pc = "defer_client"

\* Both connections of the session are closed.
TornDown == clientConn = "closed" /\ targetConn = "closed"

\* C10: a read or write failure in either direction eventually leads to the
\* teardown of the session, both connections closed, also when the peer of
\* the other direction stays connected and silent.
C10_FailureLeadsToTeardown == RelayFailure ~> TornDown

\* The request path is the matched route path, "/", and a rest.
UnderRoute == route # NoRoute /\ LiteralPrefix(route.Path \o <<"/">>, r.Path)

\* "/" and the rest: what the README writes as /* behind the target.
RestPath == SubSeq(r.Path, Len(route.Path) + 1, Len(r.Path))

\* C15: as the README's example has it, an HTTP request to <route path>/<rest>
\* is forwarded to http://<host>:<port>/<rest>, and a WebSocket connection
\* to <route path>/<rest> to ws://<host>:<port>/<rest>.
C15_ReadmeExample ==
    /\ \A i \in 1..Len(outreq) :
        UnderRoute =>
            /\ outreq[i].URL.Scheme = "http"
            /\ outreq[i].URL.Host = ExpectedHost
            /\ outreq[i].URL.Port = route.Port
            /\ outreq[i].URL.Path = RestPath
    /\ \A i \in 1..Len(wsURL) :
        UnderRoute =>
            wsURL[i] = [Scheme |-> "ws", Host |-> ExpectedHost,
                        Port |-> route.Port, Path |-> RestPath]

\* handleWebSocket has returned after a successful dial.
ReturnedAfterDial == r.ws /\ pc = "done" /\ targetConn # "nil"

\* C17: on every exit path of handleWebSocket after a successful dial the
\* backend connection is closed when the handler returns, the client
\* connection too if it was upgraded; a failed upgrade starts no relay task.
C17_ScopedRelease ==
    /\ ReturnedAfterDial =>
        /\ targetConn = "closed"
        /\ clientConn \in {"nil", "closed"}
        /\ upgrades = 1
    /\ (targetConn # "nil" /\ clientConn = "nil" /\ pc \in {"defer_target", "done"})
            => (gpc = "none" /\ readC = <<>> /\ wroteB = <<>> /\ wroteC = <<>>)
    /\ clientConn # "nil" => w.hijacked

\* The handler returned through a failed upgrade: backend connection
\* closed, no client connection, no relay task.
C17_Witness ==
    /\ ReturnedAfterDial
    /\ clientConn = "nil"
    /\ targetConn = "closed"
    /\ gpc = "none"

\* The handler has returned from a relay and its goroutine has not ended.
TaskOutlivesHandler == pc = "done" /\ gpc \in {"read", "write"}

\* C18: once the backend-to-client loop has ended and the handler has
\* returned, the client-to-backend task eventually terminates.
C18_TaskTerminates == TaskOutlivesHandler ~> (gpc = "exit")

\* The handler has returned and the task has ended although the client is
\* still connected and no write of the task failed: it ended on the
\* connection closed by the handler.
C18_Witness ==
    /\ pc = "done"
    /\ gpc = "exit"
    /\ clientUp
    /\ Len(readC) = Len(wroteB)

SignalReceived == timer # "unset"

\* The process has ended.
Exited == exit # -1

\* Every Shutdown call main started has returned.
ShutdownsReturned == \A i \in Listeners : sd[i] \notin {"spawned", "waiting"}

\* C11 as stated: once the signal is received the process ends only by
\* main returning, with exit code 0.
C11_ExitZeroAfterSignal ==
    (SignalReceived /\ Exited) => (mpc = "returned" /\ exit = 0)

\* C11, amended: once the signal is received the process always ends; main
\* returns, with exit code 0, only when every Shutdown call has returned or
\* the deadline has elapsed, and a request that never completes does not
\* hold it back; the only other end is exit code 1 from a listener whose
\* ListenAndServe failed in the meantime.
C11_ExitAfterSignal ==
    /\ SignalReceived ~> Exited
    /\ [](exit = 0 => (mpc = "returned" /\ (ShutdownsReturned \/ timer = "done")))
    /\ []((SignalReceived /\ Exited /\ exit # 0) => (exit = 1 /\ bindErr # {}))

\* The forced case: main has returned with code 0 at the deadline while a
\* request is still in flight.
C11_Witness ==
    /\ mpc = "returned"
    /\ exit = 0
    /\ timer = "done"
    /\ \E i \in Listeners : active[i] > 0 /\ sd[i] = "waiting"

\* main has gone through its snapshot of servers and released the mutex.
FanOutDone == mpc \in {"select", "returned"}

\* C12: once main has handled the signal, Shutdown has been started on
\* every listener of the configuration.
C12_ShutdownCoversAll ==
    FanOutDone => \A i \in 1..Len(config) : sd[i] # "none"

\* C13: a listener whose ListenAndServe failed to bind has ended the
\* process with exit code 1: nothing of the process runs after it, no
\* listener accepts.
C13_BindFailureIsFatal ==
    bindErr # {} =>
        /\ exit = 1
        /\ \A j \in Listeners : ~ENABLED Accept(j)

\* Listener 2 failed to bind while listener 1 was serving a request.
C13_Witness ==
    /\ bindErr = {2}
    /\ spc[1] = "serving"
    /\ active[1] > 0

\* Two listeners of the configuration have the same port.
SamePort == \E i, j \in 1..Len(config) : i # j /\ config[i] = config[j]

\* C14: with two listeners on one port, no listener serves a request and
\* the process does not end with exit code 0.
C14_SamePortFailsFast ==
    SamePort =>
        /\ \A i \in Listeners : active[i] = 0 /\ sessions[i] = 0
        /\ exit # 0

\* C16: a listener whose Shutdown call has returned serves no HTTP request
\* and no relay session, unless the deadline has elapsed.
C16_ShutdownOutlivesSessions ==
    \A i \in Listeners :
        sd[i] \in {"returned", "failed"} =>
            \/ active[i] = 0 /\ sessions[i] = 0
            \/ timer = "done"

\* Shutdown has been called on listener i.
ShutdownCalled(i) == sd[i] \in {"waiting", "returned", "failed"}

\* C20: every server of the snapshot gets one shutdown task and one
\* Shutdown call; main starts the next task, and a started task calls
\* Shutdown, whatever the other calls do; shutdownWg counts the calls that
\* have not returned; and main ends once the fan-out has begun, whether the
\* calls return, block or fail.
C20_ConcurrentShutdown ==
    /\ [](\A k, l \in 1..Len(servers) : servers[k] = servers[l] => k = l)
    /\ [](\A i \in Listeners :
            sd[i] # "none" <=> \E k \in 1..fan : servers[k] = i)
    /\ [][\A i \in Listeners : ShutdownCalled(i) => ShutdownCalled(i)']_vars
    /\ []((Running /\ mpc = "fanout" /\ fan < Len(servers)) => ENABLED FanOut)
    /\ [](\A i \in Listeners :
            (Running /\ sd[i] = "spawned") => ENABLED ShutdownCall(i))
    /\ [](shutdownWg = Cardinality({i \in Listeners : sd[i] \in {"spawned", "waiting"}}))
    /\ (mpc = "fanout") ~> Exited

\* The Shutdown call of listener 1 blocks on a request in flight, before the
\* deadline, while the call of listener 2 has returned.
C20_Witness ==
    /\ sd[1] = "waiting"
    /\ active[1] > 0
    /\ timer = "armed"
    /\ sd[2] = "returned"

\* Start task i is between its Lock and its Unlock of serversMutex.
InAppend(i) == spc[i] = "locked"

\* Start task i is past its append.
Appended(i) == spc[i] \in {"appended", "serving", "stopped"}

\* C21: the append of a start task and the iteration of main exclude one
\* another, each holding serversMutex; servers holds the listeners whose
\* start task is past its append, each once, so exactly the configured
\* listeners once all start tasks are past it.
C21_ServersUnderMutex ==
    /\ \A i, j \in Listeners : (InAppend(i) /\ InAppend(j)) => i = j
    /\ \A i \in Listeners : InAppend(i) => (serversMutex = i /\ mpc # "fanout")
    /\ mpc = "fanout" => serversMutex = -1
    /\ \A k, l \in 1..Len(servers) : servers[k] = servers[l] => k = l
    /\ {servers[k] : k \in 1..Len(servers)} = {i \in Listeners : Appended(i)}
    /\ (\A i \in 1..Len(config) : Appended(i)) =>
            /\ Len(servers) = Len(config)
            /\ {servers[k] : k \in 1..Len(servers)} = 1..Len(config)

\* Both start tasks of a two-listener configuration are past their append,
\* the second one first.
C21_Witness ==
    /\ mpc # "load"
    /\ Len(config) = 2
    /\ servers = <<2, 1>>

\* The handler is past its route loop and the loop's state is still there.
PastMatch ==
    /\ routes # <<>>
    /\ pc \notin {"idle", "handleHTTP", "handleWebSocket"}

\* C22: the test of the route loop is true of an entry exactly when the
\* entry's path is a prefix of the request path character by character,
\* case included, wherever in the request path the prefix ends; a route is
\* selected exactly when some entry passes, and the selected route passes.
C22_LiteralPrefixMatch ==
    PastMatch =>
        /\ \A k \in 1..Len(routes[1]) :
            HasPrefix(r.Path, routes[1][k].Path)
                <=> LiteralPrefix(routes[1][k].Path, r.Path)
        /\ route # NoRoute <=> Matching(routes[1], r.Path) # {}
        /\ route # NoRoute => LiteralPrefix(route.Path, r.Path)

\* Route /a alone is selected for the plain request /ab/x: the prefix ends
\* inside the segment "ab".
C22_Witness ==
    /\ pc = "http_url"
    /\ routes # <<>>
    /\ Len(routes[1]) = 1
    /\ route.Path = <<"/", "a">>
    /\ r.Path = <<"/", "a", "b", "/", "x">>

\* ------------------------------------------------------------ properties of the listeners' handlers

\* The backends the routes rs name, with the host default applied.
BackendsOf(rs) ==
    { [Host |-> TargetHost(rs[k]), Port |-> rs[k].Port] : k \in 1..Len(rs) }

\* The backend the handler of call c forwards to or dials: that of the
\* route its loop selects, none when no route matches.
ReachedBackends(c) ==
    LET i == RangeRoutes(c.routes, c.r.Path, 1)
    IN  IF i = 0 THEN {} ELSE BackendsOf(<<c.routes[i]>>)

\* C23: a request that listener l accepts gives one handler call,
\* handleWebSocket for an upgrade request and handleHTTP otherwise, with
\* the route list of listener l, so the backend it reaches is one of that
\* listener's routes.
C23_OwnRouteList ==
    /\ Len(calls) <= 1
    /\ \A k \in 1..Len(calls) :
        LET c == calls[k] IN
        /\ c.fn = "handleWebSocket" <=> c.r.ws
        /\ c.fn = "handleHTTP" <=> ~c.r.ws
        /\ c.routes = router[c.listener]
        /\ ReachedBackends(c) \subseteq BackendsOf(router[c.listener])

\* Both listeners are started, and listener 1 has handled a request that
\* reaches a backend which only listener 1 routes to.
C23_Witness ==
    /\ Len(router) = 2
    /\ serverConfig = 2
    /\ Len(calls) = 1
    /\ calls[1].listener = 1
    /\ ReachedBackends(calls[1]) # {}
    /\ ReachedBackends(calls[1]) \cap BackendsOf(router[2]) = {}

\* C24: the handler writes at most one HTTP response for a request, and
\* none on a connection the upgrade has taken over.
C24_OneResponse ==
    /\ Len(w.statuses) <= 1
    /\ w.hijacked => w.statuses = <<>>

\* The spawned task, and not the handler, takes this step.
TaskStep == gpc' # gpc /\ pc' = pc

\* The handler, and not the spawned task, takes this step.
HandlerStep == pc' # pc /\ gpc' = gpc

InServers == { servers[k] : k \in 1..Len(servers) }

\* C26: a listener that accepts connections, or serves what it accepted,
\* has its server in servers; and servers only grows at its end.
C26_ServingIsMember ==
    /\ [](\A i \in Listeners :
            (spc[i] = "serving" \/ active[i] > 0 \/ sessions[i] > 0) => i \in InServers)
    /\ [][IsPrefix(servers, servers')]_vars

\* Listener 1 serves a request and is in servers, while the start task of
\* listener 2 has not appended yet.
C26_Witness ==
    /\ spc[1] = "serving"
    /\ active[1] > 0
    /\ spc[2] = "new"
    /\ servers = <<1>>

\* ------------------------------------------------------------ properties of the first variant

\* A step in which the first variant's handleHTTP proxies a request.
FirstProxied == pc = "first_handleHTTP" /\ Len(outreq') = Len(outreq) + 1

\* C27: when the first variant's handleHTTP proxies a request, the path of
\* the request it hands to the proxy is the inbound path without the
\* matched route path at its start, and the backend gets that remainder,
\* as it is when it begins with "/" and after a "/" otherwise.
C27_FirstVariantTrims ==
    [][FirstProxied =>
        /\ LiteralPrefix(route'.Path, r.Path)
        /\ route'.Path \o r'.Path = r.Path
        /\ r'.Path = TrimPrefix(r.Path, route'.Path)
        /\ outreq'[Len(outreq')].URL.Path = SingleJoiningSlash(<<>>, r'.Path)
        /\ (r'.Path # <<>> /\ r'.Path[1] = "/")
                => outreq'[Len(outreq')].URL.Path = r'.Path]_vars

\* Route /ab and request /ab/x: the backend on port 9001 got /x.
C27_Witness ==
    /\ pc = "done"
    /\ routes # <<>>
    /\ Len(routes[1]) = 1
    /\ route.Path = <<"/", "a", "b">>
    /\ route.Host = "localhost"
    /\ r.Path = <<"/", "x">>
    /\ Len(outreq) = 1
    /\ outreq[1].URL.Path = <<"/", "x">>
    /\ outreq[1].URL.Port = 9001
====
